---- MODULE Spec2Model ----
(***************************************************************************)
(* A model of go-stackerr: errors wrapped with call stacks and metadata.   *)
(*   stack.go : Stack, Stacks, IsParentOf, RemoveParents, Distinct,        *)
(*              Format, MarshalJSON, ParseStacks, stack capture            *)
(*   error.go : stackError, clone, With/WithSingle, the in-place setters,  *)
(*              new (the merge algorithm) and the public wrap entry points *)
(***************************************************************************)
EXTENDS Integers, Sequences, FiniteSets, TLC

VARIABLES heap, arrays, maps, last, edits, s, out, calls, status

vars == <<heap, arrays, maps, last, edits, s, out, calls, status>>

(***************************************************************************)
(* Bounds of the model.                                                    *)
(***************************************************************************)
\* heap objects (error values) allocated in one run
MaxObjs == 3
\* in-place edits (WithInPlace, SetError, SetStacks) in one run
MaxEdits == 1
\* frames skipped by WrapWithFrameSkips / WrapWithFrameSkipsWithoutExtraStack
MaxSkip == 1
\* frames of an input Stack, Stacks of an input Stack-Set (pure functions)
MaxFrames == 2
MaxStacks == 2
\* nested calls the runtime allows before it aborts with a stack overflow
MaxCallDepth == 6

(***************************************************************************)
(* Frames and Stacks (stack.go:12-13).  A Stack is a sequence of frames,   *)
(* innermost first; of runtime.Frame the model keeps the three fields the  *)
(* library reads.                                                          *)
(***************************************************************************)
Frame(fn, file, line) == [Function |-> fn, File |-> file, Line |-> line]

\* error.go:11
stackDivider == "======================================"

\* strings.HasPrefix(fn, "runtime.") over the function names of the model
RuntimeFunctions == {"runtime.main", "runtime.goexit", "runtime.gopanic", "runtime.Callers"}

HasRuntimePrefix(fn) == fn \in RuntimeFunctions

(***************************************************************************)
(* Stack.IsParentOf (stack.go:102-122).  Go indexes from 0, TLA+ from 1:   *)
(* parent[len(parent)-offset] is parent[Len(parent)-offset+1].             *)
(***************************************************************************)
IsParentOf_NoInnermostLineCheck(parent, child) ==
    IF Len(child) < Len(parent) THEN FALSE
    ELSE \A offset \in 1..Len(parent) :
            LET pFrame == parent[Len(parent) - offset + 1]
                cFrame == child[Len(child) - offset + 1]
            IN  /\ ~(pFrame.Function # cFrame.Function \/ pFrame.File # cFrame.File)
                /\ ~(offset # Len(parent) /\ pFrame.Line # cFrame.Line)

IsParentOf(parent, child) ==
    IF Len(child) < Len(parent) THEN FALSE
    ELSE \A offset \in 1..Len(parent) :
            LET pFrame == parent[Len(parent) - offset + 1]
                cFrame == child[Len(child) - offset + 1]
            IN  /\ ~(\/ pFrame.Function # cFrame.Function
                     \/ pFrame.File # cFrame.File
                     \/ pFrame.Line < cFrame.Line)
                /\ ~(offset # Len(parent) /\ pFrame.Line # cFrame.Line)

(***************************************************************************)
(* Stacks.RemoveParents (stack.go:126-146): stack i is dropped when it is  *)
(* a parent of some stack at a later index j > i.                          *)
(***************************************************************************)
RECURSIVE RemoveParentsFrom(_, _)
RemoveParentsFrom(stks, i) ==
    IF i > Len(stks) THEN <<>>
    ELSE LET hasChild == \E j \in (i + 1)..Len(stks) : IsParentOf(stks[i], stks[j])
         IN  (IF hasChild THEN <<>> ELSE <<stks[i]>>) \o RemoveParentsFrom(stks, i + 1)

RemoveParents_KeepAll(stks) == stks

RemoveParents(stks) == RemoveParentsFrom(stks, 1)

(***************************************************************************)
(* Stack.trimStack (stack.go:49-56): drops the trailing runtime frames.    *)
(***************************************************************************)
RECURSIVE trimStack(_)
trimStack(st) ==
    IF Len(st) > 0 /\ HasRuntimePrefix(st[Len(st)].Function)
    THEN trimStack(SubSeq(st, 1, Len(st) - 1))
    ELSE st

(***************************************************************************)
(* Text.  A text is a sequence of lines; a line is                         *)
(*   [indent, text, loc, num]: optional leading "\t", then text, then,     *)
(* when loc, ":" and the decimal digits of num.                            *)
(***************************************************************************)
PlainLine(txt) == [indent |-> FALSE, text |-> txt, loc |-> FALSE, num |-> 0]

LocLine(file, line) == [indent |-> TRUE, text |-> file, loc |-> TRUE, num |-> line]

LineString(l) == IF l.loc THEN l.text \o ":" \o ToString(l.num) ELSE l.text

IsEmptyLine(l) == ~l.indent /\ ~l.loc /\ l.text = ""

\* Stack.Format (stack.go:82-92): "%s\n\t%s:%d" per frame, "\n" between frames.
\* A Stack with no frame left formats to the empty string: one empty line.
RECURSIVE FrameLines(_)
FrameLines(ts) ==
    IF ts = <<>> THEN <<>>
    ELSE <<PlainLine(Head(ts).Function), LocLine(Head(ts).File, Head(ts).Line)>>
            \o FrameLines(Tail(ts))

StackFormat(st) ==
    LET ts == trimStack(st)
    IN  IF ts = <<>> THEN <<PlainLine("")>> ELSE FrameLines(ts)

\* Stacks.Format (stack.go:38-47): divider "\n", then per stack its format, "\n",
\* the divider, and "\n" unless it is the last one.
RECURSIVE StacksFormatFrom(_, _)
StacksFormatFrom(stks, i) ==
    IF i > Len(stks) THEN <<>>
    ELSE (StackFormat(stks[i]) \o <<PlainLine(stackDivider)>>)
            \o StacksFormatFrom(stks, i + 1)

\* The text ends after the last divider; with no stack it is the divider and "\n",
\* that is the divider line and an empty last line.
StacksFormat(stks) ==
    IF stks = <<>> THEN <<PlainLine(stackDivider), PlainLine("")>>
    ELSE <<PlainLine(stackDivider)>> \o StacksFormatFrom(stks, 1)

(***************************************************************************)
(* Stack.MarshalJSON (stack.go:58-79) and the decoding of it into Stacks   *)
(* by json.Unmarshal (stack.go:200): the document is a list of lists of    *)
(* {function, file, line} objects.                                         *)
(***************************************************************************)
StackMarshalJSON(st) ==
    LET ts == trimStack(st)
    IN  [i \in 1..Len(ts) |->
            [function |-> ts[i].Function, file |-> ts[i].File, line |-> ts[i].Line]]

StacksMarshalJSON(stks) == [i \in 1..Len(stks) |-> StackMarshalJSON(stks[i])]

StacksUnmarshalJSON(doc) ==
    [i \in 1..Len(doc) |->
        [j \in 1..Len(doc[i]) |->
            Frame(doc[i][j].function, doc[i][j].file, doc[i][j].line)]]

(***************************************************************************)
(* ParseStacks (stack.go:197-227).                                         *)
(***************************************************************************)
MaxInt32 == 2147483647

\* strconv.ParseInt(digits, 10, 32) with the error dropped (stack.go:216)
ParseInt32(n) == IF n > MaxInt32 THEN MaxInt32 ELSE n

\* consoleStackRegexp (stack.go:35) on two consecutive lines: a non-empty line,
\* then an indented line "file:digits" with a non-empty file.
RegexpMatches(a, b) ==
    /\ LineString(a) # ""
    /\ b.indent /\ b.loc /\ b.text # ""

\* FindAllStringSubmatch: leftmost matches, not overlapping (stack.go:210-222)
RECURSIVE FindAllFrames(_, _)
FindAllFrames(lines, i) ==
    IF i >= Len(lines) THEN <<>>
    ELSE IF RegexpMatches(lines[i], lines[i + 1])
         THEN <<Frame(LineString(lines[i]), lines[i + 1].text, ParseInt32(lines[i + 1].num))>>
                \o FindAllFrames(lines, i + 2)
         ELSE FindAllFrames(lines, i + 1)

\* strings.Split(s, "\n\n") (stack.go:208): two line breaks in a row are an empty
\* line, so the text is cut at its empty lines.  (An empty first or last line, or
\* the second of two empty lines, stays in a block in the code and is a cut here:
\* no match of the regexp spans an empty line, so the stacks parsed are the same.)
RECURSIVE SplitBlocks(_, _)
SplitBlocks(lines, cur) ==
    IF lines = <<>> THEN <<cur>>
    ELSE IF IsEmptyLine(Head(lines))
         THEN <<cur>> \o SplitBlocks(Tail(lines), <<>>)
         ELSE SplitBlocks(Tail(lines), Append(cur, Head(lines)))

RECURSIVE ParseBlocks(_)
ParseBlocks(blocks) ==
    IF blocks = <<>> THEN <<>>
    ELSE LET stack == FindAllFrames(Head(blocks), 1)
         IN  (IF stack = <<>> THEN <<>> ELSE <<stack>>) \o ParseBlocks(Tail(blocks))

ParseConsole(lines) == ParseBlocks(SplitBlocks(lines, <<>>))

\* A text handed to ParseStacks: a JSON document of stacks (json.Marshal writes it
\* on one line), or console lines (no JSON: the decode fails and leaves stacks empty).
JsonText(stks) == [isJson |-> TRUE, doc |-> StacksMarshalJSON(stks), lines |-> <<>>]

ConsoleText(stks) == [isJson |-> FALSE, doc |-> <<>>, lines |-> StacksFormat(stks)]

ParseStacks(t) ==
    LET stacks == IF t.isJson THEN StacksUnmarshalJSON(t.doc) ELSE <<>>
        accepted == /\ Len(stacks) > 0
                    /\ Len(stacks[1]) > 0
                    /\ stacks[1][1].File # ""
    IN  IF t.isJson /\ accepted THEN stacks
        ELSE stacks \o ParseConsole(IF t.isJson THEN <<PlainLine("[json]")>> ELSE t.lines)

(***************************************************************************)
(* Stacks.Distinct (stack.go:149-160): the first of the stacks with the    *)
(* same Format() is kept.                                                  *)
(***************************************************************************)
RECURSIVE DistinctFrom(_, _)
DistinctFrom(stks, i) ==
    IF i > Len(stks) THEN <<>>
    ELSE LET k == StackFormat(stks[i])
             seen == \E j \in 1..(i - 1) : StackFormat(stks[j]) = k
         IN  (IF seen THEN <<>> ELSE <<stks[i]>>) \o DistinctFrom(stks, i + 1)

Distinct(stks) == DistinctFrom(stks, 1)

(***************************************************************************)
(* Inputs of the pure functions: Stacks and Stack-Sets over a few frames.  *)
(***************************************************************************)
PureFrames ==
    { Frame("main.main", "a.go", 5), Frame("main.f", "a.go", 10),
      Frame("main.f", "a.go", 12), Frame("main.g", "b.go", 20),
      Frame("runtime.goexit", "proc.go", 1) }

SeqsUpTo(S, n) == UNION { [1..k -> S] : k \in 0..n }

PureStacks == SeqsUpTo(PureFrames, MaxFrames)

PureStackSets == SeqsUpTo(PureStacks, MaxStacks)

(***************************************************************************)
(* Error values.  heap is the sequence of the error values allocated so    *)
(* far; an error is its index in heap, and 0 is nil.  Kinds:               *)
(*   "plain"      errors.New / fmt.Errorf without %w: a message            *)
(*   "wrap"       fmt.Errorf with %w: Unwrap() gives inner                 *)
(*   "tracer"     a github.com/pkg/errors error: StackTrace() gives stack, *)
(*                Unwrap() gives inner (0 for errors.New of that package)  *)
(*   "stackError" *stackError (error.go:56-60): Err, and references to the *)
(*                backing array of StackTraces (in arrays) and to the      *)
(*                MetaFields map (in maps)                                 *)
(***************************************************************************)
PlainErr(msg) ==
    [kind |-> "plain", msg |-> msg, inner |-> 0, stack |-> <<>>,
     Err |-> 0, StackTraces |-> 0, MetaFields |-> 0]

WrapErr(inner) ==
    [kind |-> "wrap", msg |-> "ctx", inner |-> inner, stack |-> <<>>,
     Err |-> 0, StackTraces |-> 0, MetaFields |-> 0]

TracerErr(stack, inner) ==
    [kind |-> "tracer", msg |-> "traced", inner |-> inner, stack |-> stack,
     Err |-> 0, StackTraces |-> 0, MetaFields |-> 0]

stackError(err, stackTraces, metaFields) ==
    [kind |-> "stackError", msg |-> "", inner |-> 0, stack |-> <<>>,
     Err |-> err, StackTraces |-> stackTraces, MetaFields |-> metaFields]

IsStackError(e) == e # 0 /\ heap[e].kind = "stackError"

\* stackError.Unwrap (error.go:95-97) and the Unwrap of the foreign kinds
Unwrap(e) == IF heap[e].kind = "stackError" THEN heap[e].Err ELSE heap[e].inner

\* stackError.Stacks (error.go:91-93), stackError.Fields (error.go:136-138)
Stacks(e) == arrays[heap[e].StackTraces]

Fields(e) == maps[heap[e].MetaFields]

\* What a caller can read of a Wrapped-Error through its accessors
View(e) ==
    IF IsStackError(e)
    THEN [Err |-> heap[e].Err, Stacks |-> Stacks(e), Fields |-> Fields(e)]
    ELSE [Err |-> 0, Stacks |-> <<>>, Fields |-> <<>>]

Views == [e \in 1..Len(heap) |-> View(e)]

\* for k, v := range kv { m[k] = v } (error.go:110-112, 118, 123-125)
Put(m, kv) ==
    [k \in DOMAIN m \cup DOMAIN kv |-> IF k \in DOMAIN kv THEN kv[k] ELSE m[k]]

(***************************************************************************)
(* Stack capture (stack.go:168-193).  The goroutine's stack is a Stack of  *)
(* all the frames down to the caller; runtime.Callers(skip) returns it     *)
(* from position skip on, 0 being Callers itself.                          *)
(***************************************************************************)
Callers(skip, goroutine) ==
    IF skip >= Len(goroutine) THEN <<>>
    ELSE SubSeq(goroutine, skip + 1, Len(goroutine))

StackTraceWithSkippedFrames(skippedFrames, caller) ==
    Callers(2 + skippedFrames,
            << Frame("runtime.Callers", "extern.go", 325),
               Frame("stackerr.StackTraceWithSkippedFrames", "stack.go", 172) >>
            \o caller)

(***************************************************************************)
(* new (error.go:192-264), in the order of the code: the walk of the       *)
(* chain, the selection of the stacks, RemoveParents, the flattening.      *)
(***************************************************************************)
\* error.go:210-217: a key of the chain is added only if it is not there yet
AddMissing(allFields, metaFields) ==
    [k \in DOMAIN allFields \cup DOMAIN metaFields |->
        IF k \in DOMAIN allFields THEN allFields[k] ELSE metaFields[k]]

\* A walk that goes on below a stackError and lets the inner layers overwrite
RECURSIVE WalkChain_InnerWins(_, _, _, _)
WalkChain_InnerWins(h, unwrapped, allStacks, allFields) ==
    IF unwrapped = 0 THEN [stacks |-> allStacks, fields |-> allFields]
    ELSE IF h[unwrapped].kind = "stackError"
         THEN WalkChain_InnerWins(h, h[unwrapped].Err,
                                  allStacks \o arrays[h[unwrapped].StackTraces],
                                  Put(allFields, maps[h[unwrapped].MetaFields]))
         ELSE IF h[unwrapped].kind = "tracer"
              THEN WalkChain_InnerWins(h, h[unwrapped].inner,
                                       Append(allStacks, h[unwrapped].stack), allFields)
              ELSE WalkChain_InnerWins(h, h[unwrapped].inner, allStacks, allFields)

\* error.go:204-232, over the heap h: the stacks and fields of the first
\* stackError of the chain, after the stacks of the tracers above it
RECURSIVE WalkChain(_, _, _, _)
WalkChain(h, unwrapped, allStacks, allFields) ==
    IF unwrapped = 0 THEN [stacks |-> allStacks, fields |-> allFields]
    ELSE IF h[unwrapped].kind = "stackError"
         THEN [stacks |-> allStacks \o arrays[h[unwrapped].StackTraces],
               fields |-> AddMissing(allFields, maps[h[unwrapped].MetaFields])]
         ELSE IF h[unwrapped].kind = "tracer"
              THEN WalkChain(h, h[unwrapped].inner,
                             Append(allStacks, h[unwrapped].stack), allFields)
              ELSE WalkChain(h, h[unwrapped].inner, allStacks, allFields)

\* A selection that captures a stack whatever the flag, and one that puts the
\* explicit stacks after the accumulated ones
SelectStacks_AlwaysCapture(newStacks, allStacks, addStackToExisting, current) ==
    IF Len(newStacks) > 0
    THEN [stacks |-> newStacks \o allStacks, captured |-> FALSE]
    ELSE [stacks |-> <<current>> \o allStacks, captured |-> TRUE]

SelectStacks_ExplicitLast(newStacks, allStacks, addStackToExisting, current) ==
    IF Len(newStacks) > 0
    THEN [stacks |-> allStacks \o newStacks, captured |-> FALSE]
    ELSE IF Len(allStacks) = 0 \/ addStackToExisting
         THEN [stacks |-> <<current>> \o allStacks, captured |-> TRUE]
         ELSE [stacks |-> allStacks, captured |-> FALSE]

\* error.go:234-241; current is what StackTraceWithSkippedFrames returns if called
SelectStacks(newStacks, allStacks, addStackToExisting, current) ==
    IF Len(newStacks) > 0
    THEN [stacks |-> newStacks \o allStacks, captured |-> FALSE]
    ELSE IF Len(allStacks) = 0 \/ addStackToExisting
         THEN [stacks |-> <<current>> \o allStacks, captured |-> TRUE]
         ELSE [stacks |-> allStacks, captured |-> FALSE]

\* error.go:243-246
DistinctStacks(allStacks) ==
    IF Len(allStacks) > 1 THEN RemoveParents(allStacks) ELSE allStacks

InnerError_NoFlatten(h, err) == err

\* error.go:248-263: a stackError is not wrapped again, its Err is taken
InnerError(h, err) == IF h[err].kind = "stackError" THEN h[err].Err ELSE err

\* h: the heap with the error to wrap in it; caller: the goroutine's stack from
\* the frame of the entry point that calls new
new(h, err, skippedFrames, addStackToExisting, newStacks, caller) ==
    IF err = 0
    THEN [isNil |-> TRUE, Err |-> 0, stacks |-> <<>>, fields |-> <<>>,
          accumulated |-> <<>>, captured |-> FALSE, current |-> <<>>]
    ELSE LET walk == WalkChain(h, err, <<>>, <<>>)
             current == StackTraceWithSkippedFrames(
                            1 + skippedFrames,
                            <<Frame("stackerr.new", "error.go", 240)>> \o caller)
             sel == SelectStacks(newStacks, walk.stacks, addStackToExisting, current)
         IN  [isNil |-> FALSE,
              Err |-> InnerError(h, err),
              stacks |-> DistinctStacks(sel.stacks),
              fields |-> walk.fields,
              accumulated |-> walk.stacks,
              captured |-> sel.captured,
              current |-> current]

(***************************************************************************)
(* stackError.clone (error.go:70-81): a new stackError with the same Err,  *)
(* a new backing array holding a copy of StackTraces and a new map holding *)
(* a copy of MetaFields.  The result is the new object and the new heaps.  *)
(***************************************************************************)
clone_SharedFields(se) ==
    [node |-> stackError(heap[se].Err, Len(arrays) + 1, heap[se].MetaFields),
     arrays |-> Append(arrays, Stacks(se)),
     maps |-> maps]

clone(se) ==
    [node |-> stackError(heap[se].Err, Len(arrays) + 1, Len(maps) + 1),
     arrays |-> Append(arrays, Stacks(se)),
     maps |-> Append(maps, Fields(se))]

(***************************************************************************)
(* What the program around the library supplies: call sites, explicit      *)
(* stacks, metadata.                                                       *)
(***************************************************************************)
Bottom == <<Frame("runtime.main", "proc.go", 250)>>

AtMain == <<Frame("main.main", "a.go", 5)>> \o Bottom

AtF == <<Frame("main.f", "a.go", 10)>> \o AtMain

AtF2 == <<Frame("main.f", "a.go", 12)>> \o AtMain

AtG == <<Frame("main.g", "b.go", 20)>> \o AtF

AtH == <<Frame("main.h", "c.go", 30)>> \o AtMain

CallSites == {AtF, AtF2, AtG}

GivenStacks == {AtF, AtH}

Keys == {"k1", "k2"}

Vals == {1, 2}

\* Arguments of With and WithInPlace: no pair, one pair, a pair for every key
KeyValuePairs == { <<>>, [k \in {"k1"} |-> 1], [k \in Keys |-> 2] }

\* The record of the last call: its name, its argument, its result, what new
\* computed, the key-value pairs or stacks given, and the views before the call
Did(op, arg, res, r, given) ==
    [op |-> op, arg |-> arg, res |-> res, r |-> r, given |-> given, views |-> Views]

NilResult ==
    [isNil |-> TRUE, Err |-> 0, stacks |-> <<>>, fields |-> <<>>,
     accumulated |-> <<>>, captured |-> FALSE, current |-> <<>>]

NoLast ==
    [op |-> "none", arg |-> 0, res |-> 0, r |-> NilResult, given |-> <<>>, views |-> <<>>]

(***************************************************************************)
(* Errors made outside the library.                                        *)
(***************************************************************************)
\* errors.New(msg)
NewError(msg) ==
    /\ heap' = Append(heap, PlainErr(msg))
    /\ last' = Did("errors.New", 0, Len(heap) + 1, NilResult, <<>>)
    /\ UNCHANGED <<arrays, maps, edits, s, out, calls, status>>

\* fmt.Errorf("ctx: %w", err)
WrapForeign(err) ==
    /\ heap' = Append(heap, WrapErr(err))
    /\ last' = Did("fmt.Errorf", err, Len(heap) + 1, NilResult, <<>>)
    /\ UNCHANGED <<arrays, maps, edits, s, out, calls, status>>

\* github.com/pkg/errors: New(msg) for err = 0, WithStack(err) otherwise
NewTracer(err, stack) ==
    /\ heap' = Append(heap, TracerErr(stack, err))
    /\ last' = Did("pkgerrors.WithStack", err, Len(heap) + 1, NilResult, <<stack>>)
    /\ UNCHANGED <<arrays, maps, edits, s, out, calls, status>>

(***************************************************************************)
(* The public wrap entry points (error.go:143-186, 266-269).  Each returns *)
(* what new returns: nil, or a new stackError with its own backing array   *)
(* and its own map.                                                        *)
(***************************************************************************)
Returned(op, h, arg, r, given) ==
    /\ IF r.isNil
       THEN heap' = h /\ arrays' = arrays /\ maps' = maps
       ELSE /\ heap' = Append(h, stackError(r.Err, Len(arrays) + 1, Len(maps) + 1))
            /\ arrays' = Append(arrays, r.stacks)
            /\ maps' = Append(maps, r.fields)
    /\ last' = Did(op, arg, IF r.isNil THEN 0 ELSE Len(h) + 1, r, given)
    /\ UNCHANGED <<edits, s, out, calls, status>>

\* error.go:157-159
Wrap(err, site) ==
    Returned("Wrap", heap, err,
             new(heap, err, 1, TRUE, <<>>,
                 <<Frame("stackerr.Wrap", "error.go", 158)>> \o site), <<>>)

\* error.go:163-165
WrapWithFrameSkips(err, skippedFrames, site) ==
    Returned("WrapWithFrameSkips", heap, err,
             new(heap, err, 1 + skippedFrames, TRUE, <<>>,
                 <<Frame("stackerr.WrapWithFrameSkips", "error.go", 164)>> \o site), <<>>)

\* error.go:169-171
WrapWithStack(err, stack) ==
    Returned("WrapWithStack", heap, err,
             new(heap, err, 1, TRUE, <<stack>>,
                 <<Frame("stackerr.WrapWithStack", "error.go", 170)>> \o AtMain), <<stack>>)

\* error.go:176-178
WrapWithoutExtraStack(err, site) ==
    Returned("WrapWithoutExtraStack", heap, err,
             new(heap, err, 1, FALSE, <<>>,
                 <<Frame("stackerr.WrapWithoutExtraStack", "error.go", 177)>> \o site), <<>>)

\* error.go:184-186
WrapWithFrameSkipsWithoutExtraStack(err, skippedFrames, site) ==
    Returned("WrapWithFrameSkipsWithoutExtraStack", heap, err,
             new(heap, err, 1 + skippedFrames, FALSE, <<>>,
                 <<Frame("stackerr.WrapWithFrameSkipsWithoutExtraStack", "error.go", 185)>>
                    \o site), <<>>)

\* The goroutine's stack where a deferred function calls FromRecover(recover()):
\* the deferred function, the runtime's panic, then the site of the panic
Recovering(site) ==
    << Frame("main.func1", "a.go", 40), Frame("runtime.gopanic", "panic.go", 770) >> \o site

\* error.go:143-153.  r is nil ("nil"), an error ("error", err) or another
\* value ("value"), which fmt.Errorf("%v", r) turns into an error first.
FromRecover(r, err, site) ==
    LET caller == <<Frame("stackerr.FromRecover", "error.go", 149)>> \o Recovering(site)
    IN  CASE r = "nil" ->
                Returned("FromRecover", heap, 0, NilResult, <<>>)
          [] r = "error" ->
                Returned("FromRecover", heap, err, new(heap, err, 3, TRUE, <<>>, caller), <<>>)
          [] OTHER ->
                LET h == Append(heap, PlainErr("panic"))
                IN  Returned("FromRecover", h, Len(h),
                             new(h, Len(h), 3, TRUE, <<>>, caller), <<>>)

\* error.go:266-269.  wrapped = 0: the format has no %w; otherwise %w wraps it.
Errorf(wrapped, site) ==
    LET h == Append(heap, IF wrapped = 0 THEN PlainErr("boom") ELSE WrapErr(wrapped))
    IN  Returned("Errorf", h, Len(h),
                 new(h, Len(h), 1, TRUE, <<>>,
                     <<Frame("stackerr.Errorf", "error.go", 268)>> \o site), <<>>)

(***************************************************************************)
(* The cloning mutators (error.go:108-120).                                *)
(***************************************************************************)
With(se, keyValuePairs) ==
    /\ IsStackError(se)
    /\ LET newStackError == clone(se)
       IN  /\ heap' = Append(heap, newStackError.node)
           /\ arrays' = newStackError.arrays
           /\ maps' = [newStackError.maps EXCEPT
                          ![newStackError.node.MetaFields] = Put(@, keyValuePairs)]
    /\ last' = Did("With", se, Len(heap) + 1, NilResult, keyValuePairs)
    /\ UNCHANGED <<edits, s, out, calls, status>>

WithSingle(se, key, value) ==
    /\ IsStackError(se)
    /\ LET newStackError == clone(se)
       IN  /\ heap' = Append(heap, newStackError.node)
           /\ arrays' = newStackError.arrays
           /\ maps' = [newStackError.maps EXCEPT
                          ![newStackError.node.MetaFields] =
                                [k \in DOMAIN @ \cup {key} |-> IF k = key THEN value ELSE @[k]]]
    /\ last' = Did("WithSingle", se, Len(heap) + 1, NilResult, [k \in {key} |-> value])
    /\ UNCHANGED <<edits, s, out, calls, status>>

(***************************************************************************)
(* The in-place capability (error.go:122-134).                             *)
(***************************************************************************)
WithInPlace(se, keyValuePairs) ==
    /\ IsStackError(se)
    /\ maps' = [maps EXCEPT ![heap[se].MetaFields] = Put(@, keyValuePairs)]
    /\ last' = Did("WithInPlace", se, se, NilResult, keyValuePairs)
    /\ edits' = edits + 1
    /\ UNCHANGED <<heap, arrays, s, out, calls, status>>

SetError(se, err) ==
    /\ IsStackError(se)
    /\ heap' = [heap EXCEPT ![se].Err = err]
    /\ last' = Did("SetError", se, se, NilResult, <<err>>)
    /\ edits' = edits + 1
    /\ UNCHANGED <<arrays, maps, s, out, calls, status>>

\* SetStacks with a Stacks value the caller has just built
SetStacks(se, stacks) ==
    /\ IsStackError(se)
    /\ arrays' = Append(arrays, stacks)
    /\ heap' = [heap EXCEPT ![se].StackTraces = Len(arrays) + 1]
    /\ last' = Did("SetStacks", se, se, NilResult, stacks)
    /\ edits' = edits + 1
    /\ UNCHANGED <<maps, s, out, calls, status>>

\* se.SetStacks(other.Stacks()): the two then share one backing array
SetStacksOf(se, other) ==
    /\ IsStackError(se) /\ IsStackError(other)
    /\ heap' = [heap EXCEPT ![se].StackTraces = heap[other].StackTraces]
    /\ last' = Did("SetStacks", se, se, NilResult, Stacks(other))
    /\ edits' = edits + 1
    /\ UNCHANGED <<arrays, maps, s, out, calls, status>>

(***************************************************************************)
(* Spec: the wrap entry points, foreign wrapping and the cloning mutators, *)
(* each on any error made so far (or on nil).                              *)
(***************************************************************************)
NoOut == [op |-> "none"]

\* No error made yet, no call under way
MachineIdle ==
    /\ heap = <<>> /\ arrays = <<>> /\ maps = <<>>
    /\ last = NoLast /\ edits = 0 /\ calls = <<>> /\ status = "idle"

Init == MachineIdle /\ s = <<>> /\ out = NoOut

Room(n, bound) == Len(heap) + n <= bound

Errs == 1..Len(heap)

ErrsOrNil == 0..Len(heap)

Next ==
    \/ Room(1, MaxObjs) /\ NewError("boom")
    \/ Room(1, MaxObjs) /\ \E e \in Errs : WrapForeign(e)
    \/ Room(1, MaxObjs) /\ \E e \in ErrsOrNil, st \in {AtG} : NewTracer(e, st)
    \/ Room(1, MaxObjs) /\ \E e \in ErrsOrNil, site \in CallSites : Wrap(e, site)
    \/ Room(1, MaxObjs) /\ \E e \in ErrsOrNil, n \in 0..MaxSkip, site \in CallSites :
            WrapWithFrameSkips(e, n, site)
    \/ Room(1, MaxObjs) /\ \E e \in ErrsOrNil, st \in GivenStacks : WrapWithStack(e, st)
    \/ Room(1, MaxObjs) /\ \E e \in ErrsOrNil, site \in CallSites :
            WrapWithoutExtraStack(e, site)
    \/ Room(1, MaxObjs) /\ \E e \in ErrsOrNil, n \in 0..MaxSkip, site \in CallSites :
            WrapWithFrameSkipsWithoutExtraStack(e, n, site)
    \/ Room(2, MaxObjs) /\ \E r \in {"nil", "error", "value"}, e \in Errs, site \in CallSites :
            FromRecover(r, e, site)
    \/ Room(2, MaxObjs) /\ \E e \in ErrsOrNil, site \in CallSites : Errorf(e, site)
    \/ Room(1, MaxObjs) /\ \E e \in Errs, kv \in KeyValuePairs : With(e, kv)
    \/ Room(1, MaxObjs) /\ \E e \in Errs, k \in Keys, v \in Vals : WithSingle(e, k, v)

Spec == Init /\ [][Next]_vars

(***************************************************************************)
(* SpecWrap: a program that keeps one error and wraps it again and again,  *)
(* err = op(err), with the wrap entry points, foreign wrapping and the     *)
(* cloning mutators only: no in-place edit.                                *)
(***************************************************************************)
MaxChain == 7

Newest == {Len(heap)} \ {0}

NextWrap ==
    \/ heap = <<>> /\ NewError("boom")
    \/ Room(1, MaxChain) /\ \E e \in Newest : WrapForeign(e)
    \/ Room(1, MaxChain) /\ \E e \in Newest : Wrap(e, AtG)
    \/ Room(1, MaxChain) /\ \E e \in Newest : WrapWithFrameSkips(e, 1, AtG)
    \/ Room(1, MaxChain) /\ \E e \in Newest : WrapWithStack(e, AtH)
    \/ Room(1, MaxChain) /\ \E e \in Newest : WrapWithoutExtraStack(e, AtG)
    \/ Room(1, MaxChain) /\ \E e \in Newest : WrapWithFrameSkipsWithoutExtraStack(e, 1, AtG)
    \/ Room(2, MaxChain) /\ \E e \in Newest : FromRecover("error", e, AtG)
    \/ heap = <<>> /\ FromRecover("value", 0, AtG)
    \/ Room(2, MaxChain) /\ \E e \in {0} \cup Newest : Errorf(e, AtG)
    \/ Room(1, MaxChain) /\ \E e \in Newest : With(e, [k \in Keys |-> 2])
    \/ Room(1, MaxChain) /\ \E e \in Newest, k \in Keys : WithSingle(e, k, 1)

SpecWrap == Init /\ [][NextWrap]_vars

(***************************************************************************)
(* SpecInPlace: a program that wraps errors, clones them with With and     *)
(* WithSingle and edits any of them in place.                              *)
(***************************************************************************)
NextInPlace ==
    \/ heap = <<>> /\ NewError("boom")
    \/ Room(1, MaxObjs) /\ \E e \in Errs : Wrap(e, AtG)
    \/ Room(1, MaxObjs) /\ \E e \in Errs, kv \in KeyValuePairs : With(e, kv)
    \/ Room(1, MaxObjs) /\ \E e \in Errs, k \in Keys, v \in Vals : WithSingle(e, k, v)
    \/ edits < MaxEdits /\ \E e \in Errs, kv \in KeyValuePairs : WithInPlace(e, kv)
    \/ edits < MaxEdits /\ \E e \in Errs, x \in ErrsOrNil : SetError(e, x)
    \/ edits < MaxEdits /\ \E e \in Errs, st \in GivenStacks : SetStacks(e, <<st>>)
    \/ edits < MaxEdits /\ \E e \in Errs, o \in Errs : SetStacksOf(e, o)

SpecInPlace == Init /\ [][NextInPlace]_vars

(***************************************************************************)
(* SpecJSON: the structured encoding of a Wrapped-Error (error.go:62-68,   *)
(* 103-106).  calls is the stack of the calls under way, innermost last;   *)
(* a call that would make it deeper than the runtime allows ends the       *)
(* program with a stack overflow.                                          *)
(***************************************************************************)
\* stackError.Error (error.go:87-89) and the Error of the foreign kinds
RECURSIVE ErrorText(_)
ErrorText(e) ==
    IF heap[e].kind = "stackError" THEN ErrorText(heap[e].Err)
    ELSE IF heap[e].kind = "wrap" THEN heap[e].msg \o ": " \o ErrorText(heap[e].inner)
    ELSE IF heap[e].kind = "tracer" /\ heap[e].inner # 0 THEN ErrorText(heap[e].inner)
    ELSE heap[e].msg

\* A Wrapped-Error (error 2) around errors.New(msg), with its stacks and fields
InitJSON ==
    /\ \E msg \in {"boom", "eof"} : heap = <<PlainErr(msg), stackError(1, 1, 1)>>
    /\ \E stks \in {<<>>, <<AtF>>, <<AtG>>, <<AtH, AtF>>} : arrays = <<stks>>
    /\ \E m \in KeyValuePairs : maps = <<m>>
    /\ last = NoLast /\ edits = 0 /\ s = <<>> /\ out = NoOut
    /\ calls = <<>> /\ status = "idle"

Entered(fn, v) == [fn |-> fn, v |-> v]

\* The call fn(v) made by the innermost call under way, or by the program
Call(fn, v) ==
    /\ IF Len(calls) >= MaxCallDepth
       THEN calls' = calls /\ status' = "stack overflow"
       ELSE calls' = Append(calls, Entered(fn, v)) /\ status' = "running"
    /\ UNCHANGED <<heap, arrays, maps, last, edits, s, out>>

\* The outermost call returns result to the program
Return(op, result) ==
    /\ calls' = <<>> /\ status' = "returned"
    /\ out' = [op |-> op, result |-> result]
    /\ UNCHANGED <<heap, arrays, maps, last, edits, s>>

Top == calls[Len(calls)]

\* The program calls se.MarshalJSON(), se.UnmarshalJSON(data), se.FormatStacksJson()
CallMarshalJSON(se) ==
    status = "idle" /\ IsStackError(se) /\ Call("stackError.MarshalJSON", se)

CallUnmarshalJSON(se, data) ==
    status = "idle" /\ IsStackError(se) /\ Call("stackError.UnmarshalJSON", data)

CallFormatStacksJson(se) ==
    status = "idle" /\ IsStackError(se) /\ Call("stackError.FormatStacksJson", se)

\* error.go:62-64: return json.Marshal(se)
MarshalJSON ==
    /\ status = "running" /\ Top.fn = "stackError.MarshalJSON"
    /\ Call("json.Marshal", "*stackError")

\* error.go:66-68: return json.Unmarshal(data, se)
UnmarshalJSON ==
    /\ status = "running" /\ Top.fn = "stackError.UnmarshalJSON"
    /\ Call("json.Unmarshal", Top.v)

\* error.go:103-106: b, _ := json.Marshal(se.StackTraces)
FormatStacksJson ==
    /\ status = "running" /\ Top.fn = "stackError.FormatStacksJson"
    /\ Call("json.Marshal", "Stacks")

\* encoding/json: Marshal(v) calls v.MarshalJSON() when v's type is a
\* json.Marshaler, as *stackError is (error.go:13-16); Stacks it encodes itself,
\* each Stack by Stack.MarshalJSON (stack.go:58-79).
JsonMarshal ==
    /\ status = "running" /\ Top.fn = "json.Marshal"
    /\ IF Top.v = "*stackError"
       THEN Call("stackError.MarshalJSON", 2)
       ELSE Return("FormatStacksJson", StacksMarshalJSON(Stacks(2)))

\* encoding/json: Unmarshal(data, v) returns an error for data that is no JSON and
\* otherwise calls v.UnmarshalJSON(data) when v is a json.Unmarshaler.
JsonUnmarshal ==
    /\ status = "running" /\ Top.fn = "json.Unmarshal"
    /\ IF Top.v = "not json"
       THEN Return("UnmarshalJSON", "SyntaxError")
       ELSE Call("stackError.UnmarshalJSON", Top.v)

NextJSON ==
    \/ CallMarshalJSON(2)
    \/ \E data \in {"json", "not json"} : CallUnmarshalJSON(2, data)
    \/ CallFormatStacksJson(2)
    \/ MarshalJSON
    \/ UnmarshalJSON
    \/ FormatStacksJson
    \/ JsonMarshal
    \/ JsonUnmarshal

SpecJSON == InitJSON /\ [][NextJSON]_vars

\* The object the structured encoding of Wrapped-Error e is to hold
Encoding(e) ==
    [err |-> ErrorText(e), stack_traces |-> StacksMarshalJSON(Stacks(e)),
     meta_fields |-> Fields(e)]

\* C7: MarshalJSON of a Wrapped-Error completes and yields the object holding the
\* message, the Stack-Set and the metadata, and UnmarshalJSON of that encoding
\* completes and rebuilds the same triple.
C7_StructuredRoundTrip ==
    /\ (calls # <<>> /\ calls[1].fn = "stackError.MarshalJSON")
            => status # "stack overflow"
    /\ (calls # <<>> /\ calls[1] = Entered("stackError.UnmarshalJSON", "json"))
            => status # "stack overflow"
    /\ (status = "returned" /\ out.op = "MarshalJSON") => out.result = Encoding(2)
    /\ (status = "returned" /\ out.op = "UnmarshalJSON" /\ out.result # "SyntaxError")
            => out.result = Encoding(2)

(***************************************************************************)
(* SpecParent: IsParentOf applied both ways to a pair of Stacks.           *)
(***************************************************************************)
InitParent == MachineIdle /\ s \in [1..2 -> PureStacks] /\ out = NoOut

ApplyIsParentOf ==
    /\ out = NoOut
    /\ out' = [op |-> "IsParentOf",
               ab |-> IsParentOf(s[1], s[2]),
               ba |-> IsParentOf(s[2], s[1])]
    /\ UNCHANGED <<heap, arrays, maps, last, edits, s, calls, status>>

NextParent == ApplyIsParentOf

SpecParent == InitParent /\ [][NextParent]_vars

(***************************************************************************)
(* SpecStacks: RemoveParents, Distinct and the two encodings of a          *)
(* Stack-Set, parsed back.                                                 *)
(***************************************************************************)
InitStacks == MachineIdle /\ s \in PureStackSets /\ out = NoOut

ApplyRemoveParents ==
    /\ out' = [op |-> "RemoveParents", stacks |-> RemoveParents(s)]
    /\ UNCHANGED <<heap, arrays, maps, last, edits, s, calls, status>>

ApplyDistinct ==
    /\ out' = [op |-> "Distinct", stacks |-> Distinct(s)]
    /\ UNCHANGED <<heap, arrays, maps, last, edits, s, calls, status>>

ApplyRoundTrip ==
    /\ out' = [op |-> "RoundTrip",
               console |-> ParseStacks(ConsoleText(s)),
               json |-> ParseStacks(JsonText(s))]
    /\ UNCHANGED <<heap, arrays, maps, last, edits, s, calls, status>>

NextStacks == ApplyRemoveParents \/ ApplyDistinct \/ ApplyRoundTrip

SpecStacks == InitStacks /\ [][NextStacks]_vars

(***************************************************************************)
(* Properties of the wrapping machine.                                     *)
(***************************************************************************)
WrapOps ==
    {"Wrap", "WrapWithFrameSkips", "WrapWithStack", "WrapWithoutExtraStack",
     "WrapWithFrameSkipsWithoutExtraStack", "Errorf", "FromRecover"}

CloneOps == {"With", "WithSingle"}

InPlaceOps == {"WithInPlace", "SetError", "SetStacks"}

Range(f) == { f[i] : i \in DOMAIN f }

\* The errors of the chain of e, outermost first, following Unwrap to the root
RECURSIVE ChainOf(_)
ChainOf(e) == IF e = 0 THEN <<>> ELSE <<e>> \o ChainOf(Unwrap(e))

\* The positions in ChainOf(e) of the Wrapped-Error layers that carry key k
LayersWith(e, k) ==
    { i \in 1..Len(ChainOf(e)) :
        IsStackError(ChainOf(e)[i]) /\ k \in DOMAIN Fields(ChainOf(e)[i]) }

Min(S) == CHOOSE x \in S : \A y \in S : x <= y

\* C1: the inner error of every Wrapped-Error returned by a wrap entry point or
\* by With/WithSingle is never itself a Wrapped-Error.
C1_Flattening ==
    /\ \A e \in Errs : IsStackError(e) => ~IsStackError(heap[e].Err)
    /\ (last.op \in WrapOps \cup CloneOps /\ last.res # 0)
            => IsStackError(last.res) /\ ~IsStackError(Unwrap(last.res))

\* C1 witness: a wrap entry point was applied directly to a Wrapped-Error whose
\* inner error is a foreign error wrapping an earlier Wrapped-Error
C1_Witness ==
    /\ last.op \in WrapOps /\ last.res # 0
    /\ IsStackError(last.arg)
    /\ heap[heap[last.arg].Err].kind = "wrap"
    /\ IsStackError(heap[heap[last.arg].Err].inner)

\* C4: wrapping an error again yields a Wrapped-Error whose metadata contains
\* every key carried by a Wrapped-Error layer of the chain, with the value of the
\* outermost layer carrying it.
C4_OutermostWins ==
    (last.op \in WrapOps /\ last.res # 0)
        => \A k \in Keys :
                LayersWith(last.arg, k) # {}
                    => /\ k \in DOMAIN Fields(last.res)
                       /\ Fields(last.res)[k] =
                            Fields(ChainOf(last.arg)[Min(LayersWith(last.arg, k))])[k]

\* C4 witness: the wrapped error had two layers carrying one key with two values
C4_Witness ==
    /\ last.op \in WrapOps /\ last.res # 0
    /\ \E k \in Keys : \E i, j \in LayersWith(last.arg, k) :
            Fields(ChainOf(last.arg)[i])[k] # Fields(ChainOf(last.arg)[j])[k]

\* C3: in the Stack-Set of every Wrapped-Error returned by a wrap entry point, no
\* Stack at position i is a parent of a Stack at a later position j > i.
C3_NoParentOfLater ==
    (last.op \in WrapOps /\ last.res # 0)
        => \A i, j \in 1..Len(Stacks(last.res)) :
                i < j => ~IsParentOf(Stacks(last.res)[i], Stacks(last.res)[j])

\* C3 witness: of three or more stacks selected, a parent was removed and two or
\* more stacks were kept
C3_Witness ==
    /\ last.op \in WrapOps /\ last.res # 0
    /\ Len(last.r.accumulated) >= 2
    /\ Len(Stacks(last.res)) >= 2
    /\ Len(Stacks(last.res)) <= Len(last.r.accumulated)

NoForceOps == {"WrapWithoutExtraStack", "WrapWithFrameSkipsWithoutExtraStack"}

\* C5: a wrap without force and without explicit stacks of a non-nil error: if the
\* walk accumulated a Stack, the result holds no fresh capture and accumulated
\* Stacks only; if it accumulated none, the result is the fresh capture alone.
C5_NoForceSelection ==
    (last.op \in NoForceOps /\ last.res # 0)
        => IF Len(last.r.accumulated) >= 1
           THEN /\ ~last.r.captured
                /\ Range(Stacks(last.res)) \subseteq Range(last.r.accumulated)
           ELSE /\ last.r.captured
                /\ Stacks(last.res) = <<last.r.current>>

\* C5 witness: a wrap without force of an error whose chain holds two Stacks
C5_Witness ==
    /\ last.op \in NoForceOps /\ last.res # 0
    /\ Len(last.r.accumulated) >= 2

\* C6 as stated: WrapWithStack(err, st) returns a Wrapped-Error whose Stack-Set has
\* st as its first Stack, ahead of the harvested ones, and no fresh capture.
C6_ExplicitStackFirst ==
    (last.op = "WrapWithStack" /\ last.res # 0)
        => /\ ~last.r.captured
           /\ Len(Stacks(last.res)) >= 1
           /\ Stacks(last.res)[1] = last.given[1]
           /\ \A i \in 2..Len(Stacks(last.res)) :
                Stacks(last.res)[i] \in Range(last.r.accumulated)

\* C6 amended: WrapWithStack(err, st) returns a Wrapped-Error with no fresh capture
\* whose Stack-Set, unless st is a parent (IsParentOf) of a Stack harvested from the
\* chain, has st as its first Stack ahead of the harvested ones; when st is such a
\* parent the Stack-Set holds harvested Stacks only.
C6_ExplicitStackFirstUnlessParent ==
    (last.op = "WrapWithStack" /\ last.res # 0)
        => /\ ~last.r.captured
           /\ Len(Stacks(last.res)) >= 1
           /\ IF \E i \in 1..Len(last.r.accumulated) :
                    IsParentOf(last.given[1], last.r.accumulated[i])
              THEN Range(Stacks(last.res)) \subseteq Range(last.r.accumulated)
              ELSE /\ Stacks(last.res)[1] = last.given[1]
                   /\ \A i \in 2..Len(Stacks(last.res)) :
                        Stacks(last.res)[i] \in Range(last.r.accumulated)

\* C6 witness: WrapWithStack of an error with a harvested Stack, the given Stack
\* kept first and the harvested one after it
C6_Witness ==
    /\ last.op = "WrapWithStack" /\ last.res # 0
    /\ Len(last.r.accumulated) >= 1
    /\ Len(Stacks(last.res)) >= 2
    /\ Stacks(last.res)[1] = last.given[1]

\* C2: With and WithSingle leave the receiver as it was and return a Wrapped-Error
\* that shares neither the metadata map nor the Stack-Set array with it; an
\* in-place edit shows on the instance edited and on no other Wrapped-Error.
C2_CloneIsolation ==
    /\ (last.op \in CloneOps)
            => /\ View(last.arg) = last.views[last.arg]
               /\ heap[last.res].MetaFields # heap[last.arg].MetaFields
               /\ heap[last.res].StackTraces # heap[last.arg].StackTraces
               /\ heap[last.res].Err = heap[last.arg].Err
               /\ Stacks(last.res) = Stacks(last.arg)
               /\ Fields(last.res) = Put(Fields(last.arg), last.given)
    /\ (last.op \in InPlaceOps)
            => /\ \A e \in Errs : e # last.arg => View(e) = last.views[e]
               /\ last.op = "WithInPlace"
                    => \A k \in DOMAIN last.given : Fields(last.arg)[k] = last.given[k]
               /\ last.op = "SetError" => heap[last.arg].Err = last.given[1]
               /\ last.op = "SetStacks" => Stacks(last.arg) = last.given

\* C2 witness: error 3 is a clone with metadata of error 2, made before the only
\* in-place edit, which then put other metadata into error 2
C2_Witness ==
    /\ last.op = "WithInPlace" /\ last.arg = 2 /\ edits = 1
    /\ Len(heap) = 3 /\ IsStackError(3)
    /\ Fields(3) # <<>>
    /\ Fields(2) # Fields(3)
    /\ last.views[2].Fields = <<>>

\* The function/file/line triples of a Stack-Set after the runtime-frame trim
Trimmed(stks) == [i \in 1..Len(stks) |-> trimStack(stks[i])]

\* C9: if A.IsParentOf(B) and B.IsParentOf(A) then A and B have the same length
\* and are equal frame for frame in function, file and line.
C9_Antisymmetry ==
    (out.op = "IsParentOf" /\ out.ab /\ out.ba)
        => /\ Len(s[1]) = Len(s[2])
           /\ \A i \in 1..Len(s[1]) :
                /\ s[1][i].Function = s[2][i].Function
                /\ s[1][i].File = s[2][i].File
                /\ s[1][i].Line = s[2][i].Line

\* C9 witness: two Stacks of two frames are found parents of each other
C9_Witness ==
    out.op = "IsParentOf" /\ out.ab /\ out.ba /\ Len(s[1]) = 2

\* C10: no Stack of s.RemoveParents() is a parent of a different Stack of
\* s.RemoveParents(), whether that one comes earlier or later.
C10_NoParentEitherOrder ==
    out.op = "RemoveParents"
        => \A i, j \in 1..Len(out.stacks) :
                i # j => ~IsParentOf(out.stacks[i], out.stacks[j])

\* C8: ParseStacks of the human-readable form S.Format() returns the same
\* Stack-Set as ParseStacks of the structured form: the Stacks of S in order, each
\* with the triples of S after the runtime-frame trim.  Stated for the Stack-Sets
\* (of one, two or more Stacks) whose Stacks all keep a frame after the trim.
C8_TextRoundTrip ==
    (out.op = "RoundTrip" /\ \A i \in 1..Len(s) : trimStack(s[i]) # <<>>)
        => /\ out.console = out.json
           /\ out.console = Trimmed(s)

====
